---- MODULE Spec2Model ----
(***************************************************************************)
(* Blocky: the goal-scoring engine (flatten, PerimeterGoal, BlobGoal,      *)
(* generate_goals), the point-location lookup _get_block and the players'  *)
(* generate_move policies, modelled from src/blocks/goal.py and            *)
(* src/blocks/player.py.                                                   *)
(***************************************************************************)
EXTENDS Integers, Sequences, FiniteSets, TLC

VARIABLES
    board,      \* the real board: a Block tree
    fl,         \* the last flatten call: <<[arg, writes, grid]>>, or <<>>
    sc,         \* the last score call: <<[kind, colour, grid, order, value]>>, or <<>>
    gg,         \* the generate_goals call in progress or returned, or <<>>
    loc,        \* the last _get_block call: <<[arg, location, level, result]>>, or <<>>
    player,     \* the fields of the Player object
    call,       \* where the generate_move call in progress is, and its locals
    ret,        \* what generate_move returned if it was called last, else <<>>
    moves,      \* the moves returned since the last trigger (key press)
    ev          \* the last operation made on the player

vars == <<board, fl, sc, gg, loc, player, call, ret, moves, ev>>

goalVars == <<fl, sc>>
playerVars == <<player, call, ret, moves, ev>>

None == "None"

(***************************************************************************)
(* settings.py                                                             *)
(***************************************************************************)
PACIFIC_POINT == "PACIFIC_POINT"
REAL_RED == "REAL_RED"
OLD_OLIVE == "OLD_OLIVE"
DAFFODIL_DELIGHT == "DAFFODIL_DELIGHT"

COLOUR_LIST == <<PACIFIC_POINT, REAL_RED, OLD_OLIVE, DAFFODIL_DELIGHT>>

(***************************************************************************)
(* Bounds of the model.                                                    *)
(***************************************************************************)
\* Boards have max_depth in 0..MaxDepth.
MaxDepth == 2
\* Side of a unit cell; a board of max_depth d has size UnitSize * 2^d.
UnitSize == 1

RECURSIVE Pow2(_)
Pow2(k) == IF k <= 0 THEN 1 ELSE 2 * Pow2(k - 1)

Range(s) == {s[k] : k \in DOMAIN s}

\* The colours of the cells of the boards of the model.
BoardColours == {PACIFIC_POINT, REAL_RED}

\* The numbers of subdivided (internal) blocks of the boards of the model.
SplitCounts == {0, 1, 2}

(***************************************************************************)
(* Block: the attributes the goal engine and the players read.  A block is *)
(* a leaf with a colour and no children, or has colour None and exactly    *)
(* four children in the order upper-right, upper-left, lower-left,         *)
(* lower-right, each of half the size.                                     *)
(***************************************************************************)
Block(level, max_depth, position, size, colour, children) ==
    [level |-> level, max_depth |-> max_depth, position |-> position,
     size |-> size, colour |-> colour, children |-> children]

ChildrenPositions(position, half) ==
    << <<position[1] + half, position[2]>>,
       <<position[1], position[2]>>,
       <<position[1], position[2] + half>>,
       <<position[1] + half, position[2] + half>> >>

\* The blocks at <level>, <position>, <size> with exactly k subdivided
\* blocks and leaves coloured from cols.
RECURSIVE TreesExact(_, _, _, _, _, _)
TreesExact(level, max_depth, position, size, k, cols) ==
    IF k = 0
    THEN {Block(level, max_depth, position, size, c, <<>>) : c \in cols}
    ELSE IF level >= max_depth
    THEN {}
    ELSE LET half == size \div 2
             cp == ChildrenPositions(position, half)
             parts == {s \in [1..4 -> 0..(k - 1)] :
                          s[1] + s[2] + s[3] + s[4] = k - 1}
             T(n, s) == TreesExact(level + 1, max_depth, cp[n], half, s[n], cols)
         IN  UNION {
               {Block(level, max_depth, position, size, None, <<c1, c2, c3, c4>>) :
                    c1 \in T(1, s), c2 \in T(2, s), c3 \in T(3, s), c4 \in T(4, s)}
               : s \in parts}

\* Every top-level board of the model drawn over the colours cols.
Boards(cols) ==
    UNION {TreesExact(0, d, <<0, 0>>, UnitSize * Pow2(d), k, cols) :
               d \in 0..MaxDepth, k \in SplitCounts}

BoardSet == Boards(BoardColours)

\* The blocks of a tree: the block itself and all its descendants.
RECURSIVE Nodes(_)
Nodes(block) ==
    {block} \cup UNION {Nodes(block.children[n]) : n \in DOMAIN block.children}

Leaves(block) == {b \in Nodes(block) : b.colour /= None}

\* The leaf/children invariant of a Block, at every block of the tree.
RECURSIVE WellFormed(_)
WellFormed(block) ==
    /\ (block.colour /= None) <=> (block.children = <<>>)
    /\ block.children /= <<>> =>
          /\ Len(block.children) = 4
          /\ \A n \in 1..4 :
                /\ block.children[n].level = block.level + 1
                /\ block.children[n].max_depth = block.max_depth
                /\ block.children[n].size = block.size \div 2
                /\ block.children[n].position =
                       ChildrenPositions(block.position, block.size \div 2)[n]
                /\ WellFormed(block.children[n])

(***************************************************************************)
(* goal.py: flatten                                                        *)
(***************************************************************************)
\* final = [[None] * size for _ in range(size)]
NoneGrid(n) == [x \in 0..(n - 1) |-> [y \in 0..(n - 1) |-> None]]

\* final[x][y] = v for each write <<x, y, v>> of ws, in order, from index k.
RECURSIVE ApplyWrites(_, _, _)
ApplyWrites(grid, ws, k) ==
    IF k > Len(ws) THEN grid
    ELSE LET w == ws[k]
             g2 == IF w[1] \in DOMAIN grid /\ w[2] \in DOMAIN grid[w[1]]
                   THEN [grid EXCEPT ![w[1]][w[2]] = w[3]]
                   ELSE grid
         IN  ApplyWrites(g2, ws, k + 1)

\* The index pairs of "for i in range(n): for j in range(n)", in order.
LoopPairs(n) == [k \in 1..(n * n) |-> <<(k - 1) \div n, (k - 1) % n>>]

\* The mutant of SpliceCell: the child's cell is read transposed.
SpliceCellTransposed(block, child, unit_size, temp, i, j) ==
    << (child.position[1] - block.position[1]) \div unit_size + j,
       (child.position[2] - block.position[2]) \div unit_size + i,
       temp[i][j] >>

\* x = (child.position[0] - block.position[0]) // unit_size + j
\* y = (child.position[1] - block.position[1]) // unit_size + i
\* final[x][y] = temp[j][i]
SpliceCell(block, child, unit_size, temp, i, j) ==
    << (child.position[1] - block.position[1]) \div unit_size + j,
       (child.position[2] - block.position[2]) \div unit_size + i,
       temp[j][i] >>

RECURSIVE flatten(_)

\* The assignments final[x][y] = v that one call of flatten(block) makes to
\* its own grid, in the order the code makes them.
FlattenWrites(block) ==
    LET size == Pow2(block.max_depth - block.level)
        unit_size == block.size \div size
    IN  IF block.colour /= None
        THEN [k \in 1..(size * size) |->
                 << LoopPairs(size)[k][2], LoopPairs(size)[k][1], block.colour >>]
        ELSE LET ChildWrites(child) ==
                     LET temp == flatten(child)
                         n == Cardinality(DOMAIN temp)
                     IN  [k \in 1..(n * n) |->
                             SpliceCell(block, child, unit_size, temp,
                                        LoopPairs(n)[k][1], LoopPairs(n)[k][2])]
                 RECURSIVE Over(_)
                 Over(c) == IF c > Len(block.children) THEN <<>>
                            ELSE ChildWrites(block.children[c]) \o Over(c + 1)
             IN  Over(1)

flatten(block) ==
    ApplyWrites(NoneGrid(Pow2(block.max_depth - block.level)),
                FlattenWrites(block), 1)

(***************************************************************************)
(* goal.py: PerimeterGoal.score                                            *)
(***************************************************************************)
B2N(b) == IF b THEN 1 ELSE 0

\* The mutant of PerimeterTests: the third test repeats the second one.
PerimeterTestsRepeated(grid, colour, i) ==
    LET n == Cardinality(DOMAIN grid)
    IN  B2N(grid[0][i] = colour) + B2N(grid[i][0] = colour)
        + B2N(grid[i][0] = colour) + B2N(grid[n - 1][i] = colour)

\* The four tests of one iteration i of the loop of PerimeterGoal.score.
PerimeterTests(grid, colour, i) ==
    LET n == Cardinality(DOMAIN grid)
    IN  B2N(grid[0][i] = colour) + B2N(grid[i][0] = colour)
        + B2N(grid[i][n - 1] = colour) + B2N(grid[n - 1][i] = colour)

RECURSIVE PerimeterCount(_, _, _)
PerimeterCount(grid, colour, i) ==
    IF i >= Cardinality(DOMAIN grid) THEN 0
    ELSE PerimeterTests(grid, colour, i) + PerimeterCount(grid, colour, i + 1)

PerimeterGoal_score(colour, b) == PerimeterCount(flatten(b), colour, 0)

(***************************************************************************)
(* goal.py: BlobGoal.score and BlobGoal._undiscovered_blob_size            *)
(***************************************************************************)
\* visited = [[-1] * len(grid) for _ in range(len(grid))]
Unvisited(n) == [x \in 0..(n - 1) |-> [y \in 0..(n - 1) |-> -1]]

\* _undiscovered_blob_size(pos, board, visited): the value returned and
\* <visited> as the call leaves it (the list is mutated in place and shared
\* by the four recursive calls, made in this order).
RECURSIVE undiscovered_blob_size(_, _, _, _)
undiscovered_blob_size(colour, pos, grid, visited) ==
    LET n == Cardinality(DOMAIN grid)
    IN  IF pos[1] < 0 \/ pos[1] >= n \/ pos[2] < 0 \/ pos[2] >= n
        THEN [count |-> 0, visited |-> visited]
        ELSE IF visited[pos[1]][pos[2]] /= -1
        THEN [count |-> 0, visited |-> visited]
        ELSE IF grid[pos[1]][pos[2]] /= colour
        THEN [count |-> 0, visited |-> [visited EXCEPT ![pos[1]][pos[2]] = 0]]
        ELSE LET v0 == [visited EXCEPT ![pos[1]][pos[2]] = 1]
                 r1 == undiscovered_blob_size(colour, <<pos[1] + 1, pos[2]>>, grid, v0)
                 r2 == undiscovered_blob_size(colour, <<pos[1] - 1, pos[2]>>, grid, r1.visited)
                 r3 == undiscovered_blob_size(colour, <<pos[1], pos[2] + 1>>, grid, r2.visited)
                 r4 == undiscovered_blob_size(colour, <<pos[1], pos[2] - 1>>, grid, r3.visited)
             IN  [count |-> r1.count + r2.count + r3.count + r4.count + 1,
                  visited |-> r4.visited]

\* The loop of BlobGoal.score over the starting cells order[k..]: the list
\* <final> of the sizes found and <visited> at the end.
RECURSIVE BlobScan(_, _, _, _, _)
BlobScan(colour, grid, order, k, visited) ==
    IF k > Len(order) THEN [final |-> <<>>, visited |-> visited]
    ELSE LET r == undiscovered_blob_size(colour, order[k], grid, visited)
             rest == BlobScan(colour, grid, order, k + 1, r.visited)
         IN  [final |-> <<r.count>> \o rest.final, visited |-> rest.visited]

SeqMax(s) == CHOOSE m \in Range(s) : \A v \in Range(s) : v <= m

RECURSIVE SeqSum(_)
SeqSum(s) == IF s = <<>> THEN 0 ELSE Head(s) + SeqSum(Tail(s))

\* The mutant of BlobResult: the sizes found are added up.
BlobResultSum(final) == SeqSum(final)

\* return max(final)
BlobResult(final) == SeqMax(final)

\* BlobGoal.score with the starting cells scanned in <order>.
BlobScoreIn(colour, grid, order) ==
    BlobResult(BlobScan(colour, grid, order, 1,
                        Unvisited(Cardinality(DOMAIN grid))).final)

\* for i in range(len(grid)): for j in range(len(grid)): ... (i, j)
BlobGoal_score(colour, b) ==
    LET grid == flatten(b)
    IN  BlobScoreIn(colour, grid, LoopPairs(Cardinality(DOMAIN grid)))

\* Orders in which the starting cells of an n x n grid can be scanned: the
\* code's, its reverse, and both with the two loops exchanged.
ScanOrders(n) ==
    LET code == LoopPairs(n)
        rev(s) == [k \in DOMAIN s |-> s[Len(s) + 1 - k]]
        swp(s) == [k \in DOMAIN s |-> <<s[k][2], s[k][1]>>]
    IN  {code, rev(code), swp(code), rev(swp(code))}

(***************************************************************************)
(* The goal engine as a state machine: a board is given and flatten or one *)
(* of the score methods is called on it.                                   *)
(***************************************************************************)
\* The variables of the parts of the program a specification leaves out.
NoGoalEngine == fl = <<>> /\ sc = <<>>
NoGoals == gg = <<>>
NoLookup == loc = <<>>
NoPlayer == player = <<>> /\ call = <<>> /\ ret = <<>> /\ moves = 0 /\ ev = <<>>

Init ==
    /\ board \in BoardSet
    /\ NoGoalEngine /\ NoGoals /\ NoLookup /\ NoPlayer

\* flatten(block), for the board or any block inside it (flatten calls
\* itself on every child).
Flatten(block) ==
    /\ fl = <<>> /\ sc = <<>>
    /\ fl' = <<[arg |-> block, writes |-> FlattenWrites(block), grid |-> flatten(block)]>>
    /\ UNCHANGED <<board, sc, gg, loc, playerVars>>

\* PerimeterGoal(colour).score(board)
PerimeterScore(colour) ==
    /\ fl = <<>> /\ sc = <<>>
    /\ sc' = <<[kind |-> "perimeter", colour |-> colour, grid |-> flatten(board),
              order |-> <<>>, value |-> PerimeterGoal_score(colour, board)]>>
    /\ UNCHANGED <<board, fl, gg, loc, playerVars>>

\* BlobGoal(colour).score(board), the starting cells scanned in <order>.
BlobScore(colour, order) ==
    /\ fl = <<>> /\ sc = <<>>
    /\ sc' = <<[kind |-> "blob", colour |-> colour, grid |-> flatten(board),
              order |-> order, value |-> BlobScoreIn(colour, flatten(board), order)]>>
    /\ UNCHANGED <<board, fl, gg, loc, playerVars>>

Next ==
    \/ \E block \in Nodes(board) : Flatten(block)
    \/ \E colour \in Range(COLOUR_LIST) : PerimeterScore(colour)
    \/ \E colour \in Range(COLOUR_LIST) :
          \E order \in ScanOrders(Pow2(board.max_depth - board.level)) :
             BlobScore(colour, order)

Spec == Init /\ [][Next]_vars

(***************************************************************************)
(* Properties of the goal engine.                                          *)
(***************************************************************************)
GridSide(grid) == Cardinality(DOMAIN grid)

Cells(n) == (0..(n - 1)) \X (0..(n - 1))

\* The leaves of <block> that cover unit cell (i, j) of <block>'s grid.
LeavesCovering(block, i, j) ==
    LET n == Pow2(block.max_depth - block.level)
        unit == block.size \div n
        px == block.position[1] + i * unit
        py == block.position[2] + j * unit
    IN  {b \in Leaves(block) :
            /\ b.position[1] <= px /\ px < b.position[1] + b.size
            /\ b.position[2] <= py /\ py < b.position[2] + b.size}

\* C1: flatten of a well-formed block returns a square grid of side
\* 2^(max_depth - level); every cell is written exactly once by the call,
\* and cell [i][j] holds the colour of the one leaf covering unit cell (i, j).
C1_FlattenExact ==
    fl /= <<>> =>
        LET n == Pow2(fl[1].arg.max_depth - fl[1].arg.level)
        IN  /\ WellFormed(fl[1].arg)
            /\ DOMAIN fl[1].grid = 0..(n - 1)
            /\ \A i \in 0..(n - 1) : DOMAIN fl[1].grid[i] = 0..(n - 1)
            /\ \A k \in DOMAIN fl[1].writes :
                   fl[1].writes[k][1] \in 0..(n - 1) /\ fl[1].writes[k][2] \in 0..(n - 1)
            /\ \A c \in Cells(n) :
                   /\ Cardinality({k \in DOMAIN fl[1].writes :
                          fl[1].writes[k][1] = c[1] /\ fl[1].writes[k][2] = c[2]}) = 1
                   /\ Cardinality(LeavesCovering(fl[1].arg, c[1], c[2])) = 1
                   /\ \A b \in LeavesCovering(fl[1].arg, c[1], c[2]) :
                          fl[1].grid[c[1]][c[2]] = b.colour

\* A subdivided board two levels deep was flattened and its grid is not
\* symmetric about the diagonal.
C1_Witness ==
    /\ fl /= <<>>
    /\ fl[1].arg.level = 0 /\ fl[1].arg.max_depth = 2
    /\ \E n \in 1..4 : fl[1].arg.children /= <<>> /\ fl[1].arg.children[n].children /= <<>>
    /\ \E c \in Cells(4) : fl[1].grid[c[1]][c[2]] /= fl[1].grid[c[2]][c[1]]

Corner(n, c) == c[1] \in {0, n - 1} /\ c[2] \in {0, n - 1}
Boundary(n, c) == c[1] \in {0, n - 1} \/ c[2] \in {0, n - 1}

\* Non-corner boundary cells of the colour, plus twice the corner cells.
EdgeOncePlusCornerTwice(grid, colour) ==
    LET n == GridSide(grid)
        hit == {c \in Cells(n) : grid[c[1]][c[2]] = colour}
    IN  Cardinality({c \in hit : Boundary(n, c) /\ ~Corner(n, c)})
        + 2 * Cardinality({c \in hit : Corner(n, c)})

Enumerated(S) == {x : x \in S}

\* The cells sharing a side with cell c (no diagonals).
Neighbours(c) ==
    {<<c[1] + 1, c[2]>>, <<c[1] - 1, c[2]>>, <<c[1], c[2] + 1>>, <<c[1], c[2] - 1>>}

\* The cells of <hit> joined to a cell of S by a path of neighbouring cells
\* of <hit>; <frontier> are the cells of S whose neighbours are still to add.
RECURSIVE Connected(_, _, _)
Connected(S, frontier, hit) ==
    LET more == Enumerated((UNION {Neighbours(c) : c \in frontier} \cap hit) \ S)
    IN  IF more = {} THEN S ELSE Connected(Enumerated(S \cup more), more, hit)

\* The sizes of the 4-connected components of the cells <hit>.
RECURSIVE SizesOf(_)
SizesOf(hit) ==
    IF hit = {} THEN {}
    ELSE LET c == CHOOSE x \in hit : TRUE
             comp == Connected({c}, {c}, hit)
         IN  {Cardinality(comp)} \cup SizesOf(Enumerated(hit \ comp))

\* The sizes of the 4-connected components of the cells of the colour.
ComponentSizes(grid, colour) ==
    SizesOf(Enumerated({c \in Cells(GridSide(grid)) : grid[c[1]][c[2]] = colour}))

LargestBlob(grid, colour) ==
    LET sizes == ComponentSizes(grid, colour)
    IN  IF sizes = {} THEN 0 ELSE CHOOSE m \in sizes : \A v \in sizes : v <= m

\* C3: the blob score is the size of the largest 4-connected set of cells of
\* the target colour (the maximum, not the sum), 0 when no cell has the
\* colour, and the same in whatever order the starting cells are scanned.
C3_BlobScore ==
    (sc /= <<>> /\ sc[1].kind = "blob") =>
        /\ sc[1].value = LargestBlob(sc[1].grid, sc[1].colour)
        /\ sc[1].value = BlobGoal_score(sc[1].colour, board)

\* A grid with components of the target colour of two different sizes, the
\* larger of three cells or more, was scored in an order other than the
\* code's.
C3_Witness ==
    /\ sc /= <<>> /\ sc[1].kind = "blob"
    /\ sc[1].order /= LoopPairs(GridSide(sc[1].grid))
    /\ Cardinality(ComponentSizes(sc[1].grid, sc[1].colour)) >= 2
    /\ sc[1].value >= 3

(***************************************************************************)
(* goal.py: generate_goals                                                 *)
(***************************************************************************)
\* The mutant of ListRemove: the colour drawn stays in the list.
ListRemoveNothing(list, v) == list

\* list.remove(v): the list without the first occurrence of v.
ListRemove(list, v) ==
    LET at == CHOOSE k \in DOMAIN list :
                  list[k] = v /\ \A m \in 1..(k - 1) : list[m] /= v
    IN  [k \in 1..(Len(list) - 1) |-> IF k < at THEN list[k] ELSE list[k + 1]]

\* BlobGoal(colour) if goal_type == 1 else PerimeterGoal(colour)
NewGoal(goal_type, colour) ==
    [kind |-> IF goal_type = 1 THEN "BlobGoal" ELSE "PerimeterGoal",
     colour |-> colour]

InitGoals ==
    /\ board = <<>>
    /\ NoGoalEngine /\ NoGoals /\ NoLookup /\ NoPlayer

\* generate_goals(num_goals) is called: colours = COLOUR_LIST.copy(), final = []
GenerateGoals(num_goals) ==
    /\ gg = <<>>
    /\ gg' = <<[num_goals |-> num_goals, k |-> 0,
                colours |-> COLOUR_LIST, final |-> <<>>]>>
    /\ UNCHANGED <<board, goalVars, loc, playerVars>>

\* One iteration of the loop, random.choice giving <colour> and
\* random.randint(1, 2) giving <goal_type>.
GoalDraw(colour, goal_type) ==
    /\ gg /= <<>>
    /\ gg[1].k < gg[1].num_goals
    /\ colour \in Range(gg[1].colours)
    /\ gg' = <<[gg[1] EXCEPT !.k = @ + 1,
                             !.colours = ListRemove(@, colour),
                             !.final = Append(@, NewGoal(goal_type, colour))]>>
    /\ UNCHANGED <<board, goalVars, loc, playerVars>>

NextGoals ==
    \/ \E num_goals \in 0..Len(COLOUR_LIST) : GenerateGoals(num_goals)
    \/ \E colour \in Range(COLOUR_LIST), goal_type \in 1..2 : GoalDraw(colour, goal_type)

SpecGoals == InitGoals /\ [][NextGoals]_vars

\* generate_goals has left its loop and returns final.
GoalsReturned == gg /= <<>> /\ gg[1].k = gg[1].num_goals

\* C9: generate_goals(n), n <= len(COLOUR_LIST), returns exactly n goals,
\* their colours pairwise distinct and all of the palette, whatever is drawn;
\* the kinds are unconstrained.
C9_DistinctColours ==
    GoalsReturned =>
        LET final == gg[1].final
        IN  /\ Len(final) = gg[1].num_goals
            /\ \A a, b \in DOMAIN final : a /= b => final[a].colour /= final[b].colour
            /\ \A a \in DOMAIN final : final[a].colour \in Range(COLOUR_LIST)
            /\ \A a \in DOMAIN final : final[a].kind \in {"BlobGoal", "PerimeterGoal"}

\* generate_goals returned as many goals as the palette has colours, two of
\* them of the same kind.
C9_Witness ==
    /\ GoalsReturned
    /\ gg[1].num_goals = Len(COLOUR_LIST)
    /\ Len(gg[1].final) = Len(COLOUR_LIST)
    /\ gg[1].final[1].kind = gg[1].final[2].kind
    /\ gg[1].final[1].kind /= gg[1].final[3].kind

(***************************************************************************)
(* player.py: _get_block                                                   *)
(***************************************************************************)
\* A block inside a tree is named by its path: the child numbers (1..4) from
\* the tree's root to it.  A Block or None is <<path>> or <<>>.
RECURSIVE NodeAt(_, _)
NodeAt(block, path) ==
    IF path = <<>> THEN block ELSE NodeAt(block.children[Head(path)], Tail(path))

\* The mutant of Includes: the right and bottom edges are included.
IncludesClosedHigh(block, location) ==
    LET bx == block.position[1]
        by == block.position[2]
        lx == location[1]
        ly == location[2]
    IN  bx <= lx /\ lx <= bx + block.size /\ by <= ly /\ ly <= by + block.size

\* bx <= lx < (bx + block.size) and by <= ly < (by + block.size)
Includes(block, location) ==
    LET bx == block.position[1]
        by == block.position[2]
        lx == location[1]
        ly == location[2]
    IN  bx <= lx /\ lx < bx + block.size /\ by <= ly /\ ly < by + block.size

RECURSIVE get_block(_, _, _)
get_block(block, location, level) ==
    IF ~Includes(block, location) THEN <<>>
    ELSE IF level = block.level THEN << <<>> >>
    ELSE IF block.colour /= None THEN << <<>> >>
    ELSE LET found == {n \in DOMAIN block.children :
                          get_block(block.children[n], location, level) /= <<>>}
         IN  IF found = {} THEN <<>>
             ELSE LET n == CHOOSE m \in found : \A o \in found : m <= o
                  IN  << <<n>> \o get_block(block.children[n], location, level)[1] >>

\* The lookup ignores colours: the boards of every shape, in one colour.
ShapeSet == Boards({PACIFIC_POINT})

InitLocate ==
    /\ board \in ShapeSet
    /\ NoGoalEngine /\ NoGoals /\ NoLookup /\ NoPlayer

\* The coordinates probed: the extent of the board, and one step around it.
Probes(b) == (-1)..(b.size)

\* _get_block(block, location, level), for the board or any block inside it
\* (_get_block calls itself on the children), within the precondition
\* block.level <= level <= block.max_depth.
Locate(block, location, level) ==
    /\ loc = <<>>
    /\ block.level <= level /\ level <= block.max_depth
    /\ loc' = <<[arg |-> block, location |-> location, level |-> level,
                 result |-> get_block(block, location, level)]>>
    /\ UNCHANGED <<board, goalVars, gg, playerVars>>

NextLocate ==
    \E block \in Nodes(board), x \in Probes(board), y \in Probes(board),
       level \in 0..board.max_depth :
        Locate(block, <<x, y>>, level)

SpecLocate == InitLocate /\ [][NextLocate]_vars

\* The coordinate is in the half-open extent of b.
InExtent(b, location) ==
    /\ b.position[1] <= location[1] /\ location[1] < b.position[1] + b.size
    /\ b.position[2] <= location[2] /\ location[2] < b.position[2] + b.size

\* C8: within its precondition _get_block returns None exactly when the
\* coordinate is outside the half-open extent of the block; otherwise it
\* returns the one block at the target level that contains the coordinate or,
\* where the tree is shallower, the one leaf that contains it.
C8_Locate ==
    loc /= <<>> =>
        LET q == loc[1]
            at == {b \in Nodes(q.arg) : InExtent(b, q.location) /\ b.level = q.level}
            leaf == {b \in Leaves(q.arg) : InExtent(b, q.location)}
        IN  /\ (q.result = <<>>) <=> ~InExtent(q.arg, q.location)
            /\ q.result /= <<>> =>
                  /\ Cardinality(at) <= 1
                  /\ Cardinality(leaf) = 1
                  /\ IF at /= {} THEN NodeAt(q.arg, q.result[1]) \in at
                     ELSE NodeAt(q.arg, q.result[1]) \in leaf

\* A lookup two levels down from the top of a subdivided board found a block
\* whose top-left corner is the coordinate asked for, away from the board's
\* own corner.
C8_Witness ==
    /\ loc /= <<>>
    /\ loc[1].arg = board
    /\ loc[1].result /= <<>>
    /\ Len(loc[1].result[1]) = 2
    /\ NodeAt(board, loc[1].result[1]).position = loc[1].location
    /\ loc[1].location[1] > 0 /\ loc[1].location[2] > 0

(***************************************************************************)
(* The Action and Block collaborators of the players: the named actions,   *)
(* their penalties, and what Action.apply does to a block.  apply either   *)
(* succeeds and changes the block, or fails and leaves it as it was.       *)
(***************************************************************************)
ROTATE_CLOCKWISE == "ROTATE_CLOCKWISE"
ROTATE_COUNTER_CLOCKWISE == "ROTATE_COUNTER_CLOCKWISE"
SWAP_HORIZONTAL == "SWAP_HORIZONTAL"
SWAP_VERTICAL == "SWAP_VERTICAL"
SMASH == "SMASH"
PAINT == "PAINT"
COMBINE == "COMBINE"
PASS == "PASS"

\* Action.penalty
Penalty(action) ==
    CASE action = SMASH -> 3
      [] action \in {PAINT, COMBINE, PASS} -> 1
      [] OTHER -> 0

\* Block.create_copy(): an independent deep copy, equal to the original.
create_copy(block) == block

\* The block moved to <position>, its descendants moved along.
RECURSIVE Reposition(_, _)
Reposition(block, position) ==
    IF block.children = <<>> THEN [block EXCEPT !.position = position]
    ELSE LET cp == ChildrenPositions(position, block.size \div 2)
         IN  [block EXCEPT !.position = position,
                           !.children = <<Reposition(block.children[1], cp[1]),
                                          Reposition(block.children[2], cp[2]),
                                          Reposition(block.children[3], cp[3]),
                                          Reposition(block.children[4], cp[4])>>]

\* Block.rotate: the children change places one step round, and so do the
\* children of every descendant.
RECURSIVE Rotated(_, _)
Rotated(block, perm) ==
    IF block.children = <<>> THEN block
    ELSE Reposition([block EXCEPT !.children = <<Rotated(block.children[perm[1]], perm),
                                                 Rotated(block.children[perm[2]], perm),
                                                 Rotated(block.children[perm[3]], perm),
                                                 Rotated(block.children[perm[4]], perm)>>],
                    block.position)

\* Block.swap: the children change places across one axis.
Swapped(block, perm) ==
    Reposition([block EXCEPT !.children = <<block.children[perm[1]], block.children[perm[2]],
                                            block.children[perm[3]], block.children[perm[4]]>>],
               block.position)

\* Block.smash: four new children, child n of the colour rnd[n].
Smashed(block, rnd) ==
    LET half == block.size \div 2
        cp == ChildrenPositions(block.position, half)
    IN  [block EXCEPT !.colour = None,
                      !.children = <<Block(block.level + 1, block.max_depth, cp[1], half, rnd[1], <<>>),
                                     Block(block.level + 1, block.max_depth, cp[2], half, rnd[2], <<>>),
                                     Block(block.level + 1, block.max_depth, cp[3], half, rnd[3], <<>>),
                                     Block(block.level + 1, block.max_depth, cp[4], half, rnd[4], <<>>)>>]

\* The colours that more children of <block> have than any other colour.
Majority(block) ==
    LET count(c) == Cardinality({n \in 1..4 : block.children[n].colour = c})
        cols == {block.children[n].colour : n \in 1..4}
    IN  {c \in cols : \A d \in cols \ {c} : count(c) > count(d)}

\* Whether action.apply(block, {'colour': colour}) succeeds.
CanApply(block, action, colour) ==
    CASE action \in {ROTATE_CLOCKWISE, ROTATE_COUNTER_CLOCKWISE,
                     SWAP_HORIZONTAL, SWAP_VERTICAL} ->
             block.children /= <<>>
      [] action = SMASH ->
             block.children = <<>> /\ block.level < block.max_depth
      [] action = PAINT ->
             /\ block.children = <<>> /\ block.level = block.max_depth
             /\ block.colour /= colour
      [] action = COMBINE ->
             /\ block.children /= <<>> /\ block.level = block.max_depth - 1
             /\ Majority(block) /= {}
      [] OTHER -> TRUE

\* The block after action.apply(block, {'colour': colour}) has succeeded;
\* rnd are the colours a smash draws.
Applied(block, action, colour, rnd) ==
    CASE action = ROTATE_CLOCKWISE -> Rotated(block, <<2, 3, 4, 1>>)
      [] action = ROTATE_COUNTER_CLOCKWISE -> Rotated(block, <<4, 1, 2, 3>>)
      [] action = SWAP_HORIZONTAL -> Swapped(block, <<2, 1, 4, 3>>)
      [] action = SWAP_VERTICAL -> Swapped(block, <<4, 3, 2, 1>>)
      [] action = SMASH -> Smashed(block, rnd)
      [] action = PAINT -> [block EXCEPT !.colour = colour]
      [] action = COMBINE ->
             [block EXCEPT !.colour = CHOOSE c \in Majority(block) : TRUE,
                           !.children = <<>>]
      [] OTHER -> block

\* The tree with the block at <path> replaced by <new>.
RECURSIVE ReplaceAt(_, _, _)
ReplaceAt(tree, path, new) ==
    IF path = <<>> THEN new
    ELSE [tree EXCEPT !.children[Head(path)] = ReplaceAt(@, Tail(path), new)]

\* action.apply on the block at <path> of <tree>: whether it succeeded, and
\* the tree afterwards.
Apply(tree, path, action, colour, rnd) ==
    LET block == NodeAt(tree, path)
    IN  IF CanApply(block, action, colour)
        THEN [ok |-> TRUE, tree |-> ReplaceAt(tree, path, Applied(block, action, colour, rnd))]
        ELSE [ok |-> FALSE, tree |-> tree]

\* The colours a smash can draw for its four children.
SmashDraws == [1..4 -> BoardColours]

\* goal.score(board)
Score(g, b) ==
    IF g.kind = "BlobGoal" THEN BlobGoal_score(g.colour, b)
    ELSE PerimeterGoal_score(g.colour, b)

(***************************************************************************)
(* player.py: ComputerPlayer, RandomPlayer and SmartPlayer                 *)
(***************************************************************************)
\* Bounds of the players' model.
\* A SmartPlayer has a difficulty (_num_test) in 0..MaxDifficulty.
MaxDifficulty == 2

\* The max_depth of the boards the computer players are given.
PlayerDepths == {0, 1}

\* The boards the computer players are given.
PlayerBoards == {b \in BoardSet : b.max_depth \in PlayerDepths}

\* moves = [ROTATE_CLOCKWISE, ..., COMBINE]
Moves == <<ROTATE_CLOCKWISE, ROTATE_COUNTER_CLOCKWISE, SWAP_HORIZONTAL,
           SWAP_VERTICAL, SMASH, PAINT, COMBINE>>

\* Player.__init__, ComputerPlayer.__init__ and SmartPlayer.__init__
RandomPlayer(player_id, g) ==
    [kind |-> "RandomPlayer", id |-> player_id, goal |-> g, penalty |-> 0,
     proceed |-> FALSE]

SmartPlayer(player_id, g, difficulty) ==
    [kind |-> "SmartPlayer", id |-> player_id, goal |-> g, penalty |-> 0,
     proceed |-> FALSE, num_test |-> difficulty]

\* The goals the players are given: of both kinds, in one colour (the boards
\* of the model are the same set with the two colours exchanged).
PlayerGoals == {NewGoal(t, PACIFIC_POINT) : t \in 1..2}

\* Goal.score tabulated over the goals and the boards of the players (every
\* board an action makes of one of these boards is one of them).
ScoreTable == [g \in PlayerGoals |-> [b \in PlayerBoards |-> Score(g, b)]]

\* self.goal.score(board)
goal_score(g, b) == ScoreTable[g][b]

\* A Block of one of the two trees a generate_move call holds: the real
\* <board>, or its copy <new_board>.
Ref(obj, path) == [obj |-> obj, path |-> path]

\* The mutant of ApplyTarget: the action is tried on the real board's block.
ApplyTargetActual(actual_move, copy_move) == actual_move

\* actions.apply(copy_move, ...): the block the action is tried on.
ApplyTarget(actual_move, copy_move) == copy_move

\* The mutant of DrawCopy: the copy of the previous draw is used again.
DrawCopyReused(b, locals) ==
    IF locals.new_board /= <<>> THEN locals.new_board[1] ELSE create_copy(b)

\* new_board = board.create_copy()
DrawCopy(b, locals) == create_copy(b)

\* The mutant of Consume: _proceed is left set.
ConsumeNot(p) == p

\* self._proceed = False
Consume(p) == [p EXCEPT !.proceed = FALSE]

\* The mutant of RealBlock: the block of the copy is handed out.
RealBlockOfCopy(actual_move, copy_move) == copy_move

\* The block of a move: actual_move, located in the real board.
RealBlock(actual_move, copy_move) == actual_move

\* One draw of the loops of RandomPlayer.generate_move and
\* SmartPlayer.generate_move, random.choice giving <action> and
\* random.randint giving <x>, <y> and <level>: the copy made, the two blocks
\* located, whether apply succeeded, and the two trees afterwards.
Draw(b, locals, g, action, x, y, level, rnd) ==
    LET copy == DrawCopy(b, locals)
        actual == get_block(b, <<x, y>>, level)
        copied == get_block(copy, <<x, y>>, level)
        actual_move == Ref("board", actual)
        copy_move == Ref("new_board", copied)
        target == ApplyTarget(actual_move, copy_move)
        raised == target.path = <<>>
        r == IF raised THEN [ok |-> FALSE, tree |-> <<>>]
             ELSE Apply(IF target.obj = "board" THEN b ELSE copy,
                        target.path[1], action, g.colour, rnd)
    IN  [copy |-> copy, action |-> action, level |-> level,
         actual_move |-> actual_move, copy_move |-> copy_move,
         target |-> target.obj, raised |-> raised, ok |-> r.ok,
         board |-> IF ~raised /\ target.obj = "board" THEN r.tree ELSE b,
         new_board |-> IF ~raised /\ target.obj = "new_board" THEN r.tree ELSE copy]

\* What is recorded of a draw once it is made: the copy it was given and the
\* tree apply acted on and, when apply succeeded, the action and the blocks.
DrawEvent(d, returned) ==
    IF d.ok
    THEN <<[op |-> "draw", copy |-> d.copy, target |-> d.target, ok |-> TRUE,
            action |-> d.action, level |-> d.level,
            actual_move |-> d.actual_move, copy_move |-> d.copy_move,
            returned |-> returned]>>
    ELSE <<[op |-> "draw", copy |-> d.copy, target |-> d.target, ok |-> FALSE,
            returned |-> returned]>>

Returned(ready, move, total) == <<[ready |-> ready, move |-> move, total |-> total]>>

Move(action, block) == <<[action |-> action, block |-> block]>>

\* The values random.randint and random.choice can give for a board.
XCoordinates(new_board, b) == new_board.position[1]..(b.size - 1)
YCoordinates(new_board, b) == new_board.position[2]..(b.size - 1)
Levels(new_board) == new_board.level..new_board.max_depth
NoSmashDraw == [n \in 1..4 |-> PACIFIC_POINT]

\* The colours drawn during a draw of the loops: those of a smash that is
\* made, and none otherwise.
SmashDrawsOf(b, locals, g, action, x, y, level) ==
    IF action = SMASH /\ Draw(b, locals, g, action, x, y, level, NoSmashDraw).ok
    THEN SmashDraws ELSE {NoSmashDraw}

InitComputer ==
    /\ board \in PlayerBoards
    /\ player \in {RandomPlayer(0, g) : g \in PlayerGoals}
                  \cup {SmartPlayer(0, g, d) : g \in PlayerGoals, d \in 0..MaxDifficulty}
    /\ call = <<>> /\ ret = <<>> /\ moves = 0 /\ ev = <<>>
    /\ NoGoalEngine /\ NoGoals /\ NoLookup

\* ComputerPlayer.process_event: a left mouse button down sets _proceed.
ProcessEvent(event) ==
    /\ call = <<>>
    /\ LET trigger == event.type = "MOUSEBUTTONDOWN" /\ event.button = "BUTTON_LEFT"
       IN  /\ player' = IF trigger THEN [player EXCEPT !.proceed = TRUE] ELSE player
           /\ moves' = IF trigger THEN 0 ELSE moves
           /\ ev' = <<[op |-> "event", trigger |-> trigger, returned |-> FALSE]>>
    /\ ret' = <<>>
    /\ UNCHANGED <<board, goalVars, gg, loc, call>>

Events ==
    {[type |-> "MOUSEBUTTONDOWN", button |-> "BUTTON_LEFT"],
     [type |-> "MOUSEBUTTONDOWN", button |-> "BUTTON_RIGHT"],
     [type |-> "KEYUP", button |-> "None"]}

\* generate_move while _proceed is False: return None.
GenerateMoveWaiting ==
    /\ call = <<>>
    /\ ~player.proceed
    /\ ret' = Returned(FALSE, <<>>, <<>>)
    /\ ev' = <<[op |-> "call", returned |-> TRUE]>>
    /\ UNCHANGED <<board, goalVars, gg, loc, player, call, moves>>

\* RandomPlayer.generate_move while _proceed is True: the loop is entered.
RandomEnter ==
    /\ call = <<>>
    /\ player.kind = "RandomPlayer" /\ player.proceed
    /\ call' = <<[pc |-> "random_loop", new_board |-> <<>>]>>
    /\ ret' = <<>>
    /\ ev' = <<[op |-> "call", returned |-> FALSE]>>
    /\ UNCHANGED <<board, goalVars, gg, loc, player, moves>>

\* One iteration of "while self._proceed": on success _proceed is cleared
\* and (actions, actual_move) returned.
RandomDraw(action, x, y, level) ==
    /\ call /= <<>> /\ call[1].pc = "random_loop"
    /\ player.proceed
    /\ \E d \in {Draw(board, call[1], player.goal, action, x, y, level, rnd) :
                    rnd \in SmashDrawsOf(board, call[1], player.goal, action, x, y, level)} :
           /\ board' = d.board
           /\ IF d.raised
              THEN /\ call' = <<[pc |-> "raised", new_board |-> <<d.new_board>>]>>
                   /\ UNCHANGED <<player, ret, moves>>
              ELSE IF d.ok
              THEN /\ player' = Consume(player)
                   /\ ret' = Returned(TRUE, Move(action, RealBlock(d.actual_move, d.copy_move)), <<>>)
                   /\ moves' = moves + 1
                   /\ call' = <<>>
              ELSE /\ call' = <<[pc |-> "random_loop", new_board |-> <<d.new_board>>]>>
                   /\ UNCHANGED <<player, ret, moves>>
           /\ ev' = DrawEvent(d, d.ok)
    /\ UNCHANGED <<goalVars, gg, loc>>

\* SmartPlayer.generate_move while _proceed is True: total = [], and the
\* loop is entered.
SmartEnter ==
    /\ call = <<>>
    /\ player.kind = "SmartPlayer" /\ player.proceed
    /\ call' = <<[pc |-> "smart_loop", k |-> 0, total |-> <<>>, new_board |-> <<>>]>>
    /\ ret' = <<>>
    /\ ev' = <<[op |-> "call", returned |-> FALSE]>>
    /\ UNCHANGED <<board, goalVars, gg, loc, player, moves>>

\* The mutant of InRange: the loop makes one iteration more.
InRangeAndOne(k, num_test) == k < num_test + 1

\* "for _ in range(self._num_test)": whether there is an iteration after the
\* first k.
InRange(k, num_test) == k < num_test

\* One iteration of "for _ in range(self._num_test)": a draw that succeeds
\* is appended to total with the score of the copy.
SmartTrial(action, x, y, level) ==
    /\ call /= <<>> /\ call[1].pc = "smart_loop"
    /\ InRange(call[1].k, player.num_test)
    /\ \E d \in {Draw(board, call[1], player.goal, action, x, y, level, rnd) :
                    rnd \in SmashDrawsOf(board, call[1], player.goal, action, x, y, level)} :
           /\ board' = d.board
           /\ IF d.raised
              THEN call' = <<[call[1] EXCEPT !.pc = "raised"]>>
              ELSE call' = <<[call[1] EXCEPT
                     !.k = @ + 1,
                     !.new_board = <<d.new_board>>,
                     !.total = IF d.ok
                               THEN Append(@, [action |-> action,
                                               block |-> RealBlock(d.actual_move, d.copy_move),
                                               score |-> goal_score(player.goal, d.new_board)])
                               ELSE @]>>
           /\ ev' = DrawEvent(d, FALSE)
    /\ UNCHANGED <<goalVars, gg, loc, player, ret, moves>>

\* The mutant of Better: a trial that only equals the best so far replaces it.
BetterOrEqual(net, best_score) == net >= best_score

\* (total[i][2] - total[i][0].penalty) > best_score
Better(net, best_score) == net > best_score

\* The loop "while i < len(total)" of SmartPlayer.generate_move from index i:
\* best_score and best_move at its end.
RECURSIVE BestOf(_, _, _, _)
BestOf(total, i, best_score, best_move) ==
    IF i > Len(total) THEN [best_score |-> best_score, best_move |-> best_move]
    ELSE IF Better(total[i].score - Penalty(total[i].action), best_score)
    THEN BestOf(total, i + 1, total[i].score - Penalty(total[i].action),
                Move(total[i].action, total[i].block))
    ELSE BestOf(total, i + 1, best_score, best_move)

\* SmartPlayer.generate_move after its trials: the best trial is chosen,
\* _proceed is cleared, and the best move or (PASS, board) returned.
SmartSelect ==
    /\ call /= <<>> /\ call[1].pc = "smart_loop"
    /\ ~InRange(call[1].k, player.num_test)
    /\ LET best == BestOf(call[1].total, 1, goal_score(player.goal, board), <<>>)
       IN  ret' = Returned(TRUE,
                           IF best.best_score <= goal_score(player.goal, board)
                           THEN Move(PASS, Ref("board", << <<>> >>))
                           ELSE best.best_move,
                           call[1].total)
    /\ player' = Consume(player)
    /\ moves' = moves + 1
    /\ call' = <<>>
    /\ ev' = <<[op |-> "select", returned |-> TRUE]>>
    /\ UNCHANGED <<board, goalVars, gg, loc>>

NextComputer ==
    \/ \E event \in Events : ProcessEvent(event)
    \/ GenerateMoveWaiting
    \/ RandomEnter
    \/ \E n \in DOMAIN Moves, x \in XCoordinates(create_copy(board), board),
          y \in YCoordinates(create_copy(board), board),
          level \in Levels(create_copy(board)) : RandomDraw(Moves[n], x, y, level)
    \/ SmartEnter
    \/ \E n \in DOMAIN Moves, x \in XCoordinates(create_copy(board), board),
          y \in YCoordinates(create_copy(board), board),
          level \in Levels(create_copy(board)) : SmartTrial(Moves[n], x, y, level)
    \/ SmartSelect

SpecComputer == InitComputer /\ [][NextComputer]_vars

(***************************************************************************)
(* Properties of the computer players.                                     *)
(***************************************************************************)
DrawMade == ev /= <<>> /\ ev[1].op = "draw"
SmartReturned == ev /= <<>> /\ ev[1].op = "select"
RandomReturned == DrawMade /\ ev[1].returned

PassMove == Move(PASS, Ref("board", << <<>> >>))

\* net = (score on the mutated copy) - (penalty of the action) of a trial.
Net(trial) == trial.score - Penalty(trial.action)

\* C4: SmartPlayer.generate_move, called while ready, returns (PASS, board)
\* exactly when no recorded trial has a net above the score of the real
\* board (always when the difficulty is 0), and otherwise the action and the
\* real-board block of the earliest recorded trial of maximal net.
C4_SmartChoice ==
    SmartReturned =>
        LET total == ret[1].total
            baseline == Score(player.goal, board)
            above == {i \in DOMAIN total : Net(total[i]) > baseline}
            best == {i \in DOMAIN total :
                        /\ \A j \in DOMAIN total : Net(total[j]) <= Net(total[i])
                        /\ \A j \in 1..(i - 1) : Net(total[j]) < Net(total[i])}
        IN  /\ ret[1].ready
            /\ Len(total) <= player.num_test
            /\ \A i \in DOMAIN total :
                   total[i].action \in Range(Moves) /\ total[i].block.obj = "board"
            /\ (ret[1].move = PassMove) <=> (above = {})
            /\ above /= {} =>
                   \E i \in best : ret[1].move = Move(total[i].action, total[i].block)
            /\ player.num_test = 0 => ret[1].move = PassMove

\* A SmartPlayer returned the first of two different recorded trials whose
\* nets are equal and above the score of the real board.
C4_Witness ==
    /\ SmartReturned
    /\ Len(ret[1].total) = 2
    /\ Net(ret[1].total[1]) = Net(ret[1].total[2])
    /\ Net(ret[1].total[1]) > Score(player.goal, board)
    /\ Move(ret[1].total[1].action, ret[1].total[1].block)
           /= Move(ret[1].total[2].action, ret[1].total[2].block)
    /\ ret[1].move = Move(ret[1].total[1].action, ret[1].total[1].block)

\* C5: generate_move of RandomPlayer and of SmartPlayer never changes the
\* real board, whether a draw succeeds or fails; every apply is made on a
\* block of the copy, and the copy a draw uses is a fresh copy of the real
\* board, not the copy an earlier draw has changed.
C5_RealBoardUntouched ==
    /\ [][board' = board]_vars
    /\ [](DrawMade => ev[1].target = "new_board" /\ ev[1].copy = board)

\* A SmartPlayer made a draw that succeeded after an earlier draw of the same
\* call had succeeded and changed its copy.
C5_Witness ==
    /\ DrawMade /\ ev[1].ok
    /\ player.kind = "SmartPlayer"
    /\ call /= <<>> /\ Len(call[1].total) = 2
    /\ call[1].new_board /= <<board>>

\* C6: a move RandomPlayer.generate_move returns is never PASS; its block is
\* a block of the real board with the level, position and size of the block
\* of the copy the draw succeeded on, and the same action applied to it with
\* the goal's colour succeeds too.
C6_RandomMove ==
    RandomReturned =>
        /\ ret[1].move /= <<>>
        /\ ret[1].move[1].action = ev[1].action
        /\ ret[1].move[1].action \in Range(Moves) \ {PASS}
        /\ ret[1].move[1].block.obj = "board"
        /\ ret[1].move[1].block.path /= <<>>
        /\ ev[1].copy_move.path /= <<>>
        /\ LET real == NodeAt(board, ret[1].move[1].block.path[1])
               copied == NodeAt(ev[1].copy, ev[1].copy_move.path[1])
           IN  /\ real.level = copied.level
               /\ real.position = copied.position
               /\ real.size = copied.size
               /\ CanApply(real, ret[1].move[1].action, player.goal.colour)

\* A RandomPlayer returned a PAINT move on a block below the top of the
\* board.
C6_Witness ==
    /\ RandomReturned
    /\ ret[1].move /= <<>>
    /\ ret[1].move[1].block.path /= << <<>> >>
    /\ ret[1].move[1].action = PAINT

\* C7: generate_move returns nothing and changes nothing of the player while
\* _proceed is False; _proceed becomes True only by a left mouse button down;
\* every call that returns a move (a SmartPlayer's pass too) clears it, so at
\* most one move is returned after a trigger, however many triggers came
\* before it.
C7_ReadyFlag ==
    /\ [](moves <= 1)
    /\ [](ret /= <<>> /\ ~ret[1].ready => ret[1].move = <<>>)
    /\ [][/\ (~player.proceed /\ player'.proceed) =>
                 (ev'[1].op = "event" /\ ev'[1].trigger)
          /\ (~player.proceed /\ ev'[1].op = "call") =>
                 (player' = player /\ ret' /= <<>> /\ ret'[1].move = <<>>)
          /\ (ev'[1].returned /\ ret'[1].move /= <<>>) =>
                 (player.proceed /\ ~player'.proceed)]_vars

\* A player that had returned a move since its last trigger was asked for
\* another move and returned nothing.
C7_Witness ==
    /\ ev /= <<>> /\ ev[1].op = "call" /\ ev[1].returned
    /\ moves = 1
    /\ ~player.proceed
    /\ ret /= <<>> /\ ret[1].move = <<>>

(***************************************************************************)
(* player.py: HumanPlayer                                                  *)
(***************************************************************************)
\* _level is kept within LevelSlack of the range 0..max_depth by the guards
\* of the W and S keys (the code has no such limit).
LevelSlack == 2

\* The table KEY_ACTION of the Action collaborator: the keys that name an
\* action.
KEY_ACTION ==
    [K_a |-> ROTATE_CLOCKWISE, K_d |-> ROTATE_COUNTER_CLOCKWISE,
     K_h |-> SWAP_HORIZONTAL, K_v |-> SWAP_VERTICAL, K_SPACE |-> SMASH,
     K_e |-> PAINT, K_c |-> COMBINE, K_TAB |-> PASS]

\* HumanPlayer.__init__
HumanPlayer(player_id, g) ==
    [kind |-> "HumanPlayer", id |-> player_id, goal |-> g, penalty |-> 0,
     level |-> 0, desired_action |-> None]

Max(a, b) == IF a >= b THEN a ELSE b
Min(a, b) == IF a <= b THEN a ELSE b

\* HumanPlayer._correct_level
correct_level(p, b) == [p EXCEPT !.level = Max(0, Min(p.level, b.max_depth))]

\* The mutant of ClearDesired: the desired action is kept.
ClearDesiredNot(p) == p

\* self._desired_action = None
ClearDesired(p) == [p EXCEPT !.desired_action = None]

InitHuman ==
    /\ board \in ShapeSet
    /\ player \in {HumanPlayer(0, g) : g \in {[kind |-> "PerimeterGoal", colour |-> PACIFIC_POINT]}}
    /\ call = <<>> /\ ret = <<>> /\ moves = 0 /\ ev = <<>>
    /\ NoGoalEngine /\ NoGoals /\ NoLookup

\* HumanPlayer.process_event
HumanProcessEvent(event) ==
    /\ event.key = "K_w" => player.level > -LevelSlack
    /\ event.key = "K_s" => player.level < board.max_depth + LevelSlack
    /\ player' =
          IF event.type = "KEYUP"
          THEN IF event.key \in DOMAIN KEY_ACTION
               THEN [player EXCEPT !.desired_action = KEY_ACTION[event.key]]
               ELSE IF event.key = "K_w"
               THEN ClearDesired([player EXCEPT !.level = @ - 1])
               ELSE IF event.key = "K_s"
               THEN ClearDesired([player EXCEPT !.level = @ + 1])
               ELSE player
          ELSE player
    /\ moves' = IF event.type = "KEYUP" /\ event.key \in DOMAIN KEY_ACTION
                THEN 0 ELSE moves
    /\ ev' = <<[op |-> "event", type |-> event.type, key |-> event.key,
                returned |-> FALSE]>>
    /\ ret' = <<>>
    /\ UNCHANGED <<board, goalVars, gg, loc, call>>

HumanEvents ==
    {[type |-> "KEYUP", key |-> k] :
        k \in DOMAIN KEY_ACTION \cup {"K_w", "K_s", "K_x"}}
    \cup {[type |-> "KEYDOWN", key |-> k] : k \in {"K_a", "K_w"}}

\* HumanPlayer.generate_move, with pygame.mouse.get_pos() giving <mouse_pos>.
HumanGenerateMove(mouse_pos) ==
    LET block == get_block(board, mouse_pos, player.level)
    IN  /\ IF block = <<>> \/ player.desired_action = None
           THEN /\ player' = ClearDesired(correct_level(player, board))
                /\ ret' = Returned(TRUE, <<>>, <<>>)
                /\ moves' = moves
           ELSE /\ player' = ClearDesired(player)
                /\ ret' = Returned(TRUE, Move(player.desired_action, Ref("board", block)), <<>>)
                /\ moves' = moves + 1
        /\ ev' = <<[op |-> "query", block |-> block, level |-> player.level,
                    pending |-> player.desired_action, returned |-> TRUE]>>
        /\ UNCHANGED <<board, goalVars, gg, loc, call>>

NextHuman ==
    \/ \E event \in HumanEvents : HumanProcessEvent(event)
    \/ \E x \in Probes(board), y \in Probes(board) : HumanGenerateMove(<<x, y>>)

SpecHuman == InitHuman /\ [][NextHuman]_vars

(***************************************************************************)
(* Properties of the human player.                                         *)
(***************************************************************************)
QueryMade == ev /= <<>> /\ ev[1].op = "query"

\* C10: a query of a HumanPlayer returns the pending action with the block
\* found exactly when the lookup at the pointer position and the current
\* level finds a block and an action is pending, and nothing otherwise; the
\* pending action is cleared after every query, so one key press of an
\* action gives at most one move, and the W and S keys clear it too.
C10_HumanQuery ==
    /\ QueryMade =>
          LET found == ev[1].block
          IN  /\ (ret[1].move /= <<>>) <=> (found /= <<>> /\ ev[1].pending /= None)
              /\ ret[1].move /= <<>> =>
                     ret[1].move = Move(ev[1].pending, Ref("board", found))
              /\ player.desired_action = None
    /\ (ev /= <<>> /\ ev[1].op = "event" /\ ev[1].type = "KEYUP"
            /\ ev[1].key \in {"K_w", "K_s"}) => player.desired_action = None
    /\ moves <= 1

\* A HumanPlayer whose level had been moved with the S key returned the
\* action of a key pressed after it, on a block below the top of the board.
C10_Witness ==
    /\ QueryMade
    /\ ret[1].move /= <<>>
    /\ ev[1].level = 2
    /\ Len(ret[1].move[1].block.path[1]) = 2
    /\ ret[1].move[1].action = SMASH
    /\ moves = 1

\* C11: the representation invariant of HumanPlayer, _level >= 0, in every
\* state reached by key events and queries.
C11_LevelNonNegative == player.level >= 0

(***************************************************************************)
(* Termination of generate_move.  A call in progress goes on running, and  *)
(* random sampling is fair: a draw that can succeed is not avoided for     *)
(* ever.                                                                   *)
(***************************************************************************)
\* A draw of the loop of RandomPlayer.generate_move that succeeds.
RandomSuccess ==
    /\ \E n \in DOMAIN Moves, x \in XCoordinates(create_copy(board), board),
          y \in YCoordinates(create_copy(board), board),
          level \in Levels(create_copy(board)) : RandomDraw(Moves[n], x, y, level)
    /\ call' = <<>>

\* A step of SmartPlayer.generate_move.
SmartStep ==
    \/ \E n \in DOMAIN Moves, x \in XCoordinates(create_copy(board), board),
          y \in YCoordinates(create_copy(board), board),
          level \in Levels(create_copy(board)) : SmartTrial(Moves[n], x, y, level)
    \/ SmartSelect

SpecComputerFair ==
    SpecComputer /\ WF_vars(RandomSuccess) /\ WF_vars(SmartStep)

InRandomLoop == call /= <<>> /\ call[1].pc = "random_loop"
InSmartLoop == call /= <<>> /\ call[1].pc = "smart_loop"

\* No draw the loop can sample succeeds on the board for the player's goal.
NoDrawSucceeds ==
    \A n \in DOMAIN Moves, x \in XCoordinates(create_copy(board), board),
       y \in YCoordinates(create_copy(board), board),
       level \in Levels(create_copy(board)) :
       \A path \in Range(get_block(board, <<x, y>>, level)) :
          ~CanApply(NodeAt(board, path), Moves[n], player.goal.colour)

\* C12: RandomPlayer.generate_move, called while ready, returns a move and
\* clears _proceed eventually when some draw can succeed on the board, and
\* never returns, _proceed staying set, when none can;
\* SmartPlayer.generate_move always returns, after exactly num_test draws.
C12_Termination ==
    /\ (InRandomLoop /\ ~NoDrawSucceeds)
           ~> (ret /= <<>> /\ ret[1].move /= <<>> /\ ~player.proceed)
    /\ [](InRandomLoop /\ NoDrawSucceeds => [](InRandomLoop /\ player.proceed))
    /\ InSmartLoop ~> SmartReturned
    /\ [][/\ (InSmartLoop /\ call' /= call /\ call' /= <<>>) =>
                 (ev'[1].op = "draw" /\ call'[1].k = call[1].k + 1)
          /\ (InSmartLoop /\ call' = <<>>) =>
                 (call[1].k = player.num_test /\ ev'[1].op = "select")
          /\ (~InSmartLoop /\ call' /= <<>> /\ call'[1].pc = "smart_loop") =>
                 call'[1].k = 0]_vars

\* A RandomPlayer is in its loop on a board no draw can succeed on, a draw
\* having failed.
C12_Witness ==
    /\ InRandomLoop /\ NoDrawSucceeds
    /\ DrawMade /\ ~ev[1].ok
    /\ player.proceed

(***************************************************************************)
(* goal.py: BlobGoal.score step by step.  <call> holds the locals of       *)
(* score (grid, visited, final, the index k of the loops) and the stack of *)
(* the calls of _undiscovered_blob_size in progress: of each its pos, its  *)
(* count, and its stage (0 on entry, n in 1..4 before its n-th recursive   *)
(* call, 5 after the last).                                                *)
(***************************************************************************)
\* The colours BlobGoal.score is called with: one of the board's colours
\* (the boards are the same set with the two exchanged) and one no board has.
BlobColours == {PACIFIC_POINT, OLD_OLIVE}

\* The mutant of MarkNotTarget: the cell is marked as of the target colour.
MarkNotTargetAsTarget(visited, pos) == [visited EXCEPT ![pos[1]][pos[2]] = 1]

\* visited[pos[0]][pos[1]] = 0
MarkNotTarget(visited, pos) == [visited EXCEPT ![pos[1]][pos[2]] = 0]

\* visited[pos[0]][pos[1]] = 1
MarkTarget(visited, pos) == [visited EXCEPT ![pos[1]][pos[2]] = 1]

\* pos[0] < 0 or pos[0] >= len(board) or pos[1] < 0 or pos[1] >= len(board)
OutOfBounds(pos, grid) ==
    LET n == Cardinality(DOMAIN grid)
    IN  pos[1] < 0 \/ pos[1] >= n \/ pos[2] < 0 \/ pos[2] >= n

\* The argument of the n-th recursive call of a call at <pos>.
NeighbourOf(pos, n) ==
    CASE n = 1 -> <<pos[1] + 1, pos[2]>>
      [] n = 2 -> <<pos[1] - 1, pos[2]>>
      [] n = 3 -> <<pos[1], pos[2] + 1>>
      [] n = 4 -> <<pos[1], pos[2] - 1>>

Frame(pos) == [pos |-> pos, stage |-> 0, count |-> 0]

\* The innermost call returns <value>: to the call that made it, which adds
\* it to its count, or to the loop of score, which appends it to final.
BlobPop(c, value) ==
    LET depth == Len(c.stack)
    IN  IF depth = 1
        THEN [c EXCEPT !.stack = <<>>, !.final = Append(@, value), !.k = @ + 1]
        ELSE [c EXCEPT !.stack = [SubSeq(@, 1, depth - 1) EXCEPT
                                     ![depth - 1].count = @ + value,
                                     ![depth - 1].stage = @ + 1]]

InBlob == call /= <<>> /\ call[1].pc = "blob"

\* BlobGoal(colour).score(board) is called: grid, final and visited are made.
BlobEnter(colour) ==
    /\ call = <<>> /\ sc = <<>>
    /\ LET grid == flatten(board)
       IN  call' = <<[pc |-> "blob", colour |-> colour, grid |-> grid,
                      visited |-> Unvisited(Cardinality(DOMAIN grid)),
                      final |-> <<>>, k |-> 1, stack |-> <<>>]>>
    /\ ev' = <<[op |-> "score_called"]>>
    /\ UNCHANGED <<board, goalVars, gg, loc, player, ret, moves>>

\* The loops of score call _undiscovered_blob_size((i, j), grid, visited).
BlobScanNext ==
    /\ InBlob /\ call[1].stack = <<>>
    /\ LET order == LoopPairs(Cardinality(DOMAIN call[1].grid))
       IN  /\ call[1].k <= Len(order)
           /\ call' = <<[call[1] EXCEPT !.stack = <<Frame(order[call[1].k])>>]>>
    /\ ev' = <<[op |-> "call"]>>
    /\ UNCHANGED <<board, goalVars, gg, loc, player, ret, moves>>

\* The innermost call runs from its entry to its first recursive call or to
\* its return.
BlobInvoke ==
    /\ InBlob /\ call[1].stack /= <<>>
    /\ LET c == call[1]
           depth == Len(c.stack)
           pos == c.stack[depth].pos
       IN  /\ c.stack[depth].stage = 0
           /\ IF OutOfBounds(pos, c.grid)
              THEN /\ call' = <<BlobPop(c, 0)>>
                   /\ ev' = <<[op |-> "return_outside", pos |-> pos, value |-> 0]>>
              ELSE IF c.visited[pos[1]][pos[2]] /= -1
              THEN /\ call' = <<BlobPop(c, 0)>>
                   /\ ev' = <<[op |-> "return", pos |-> pos, value |-> 0,
                               was |-> c.visited[pos[1]][pos[2]]]>>
              ELSE IF c.grid[pos[1]][pos[2]] /= c.colour
              THEN /\ call' = <<BlobPop([c EXCEPT !.visited = MarkNotTarget(@, pos)], 0)>>
                   /\ ev' = <<[op |-> "return", pos |-> pos, value |-> 0, was |-> -1]>>
              ELSE /\ call' = <<[c EXCEPT !.visited = MarkTarget(@, pos),
                                          !.stack[depth].stage = 1]>>
                   /\ ev' = <<[op |-> "mark", pos |-> pos]>>
    /\ UNCHANGED <<board, goalVars, gg, loc, player, ret, moves>>

\* The innermost call makes its next recursive call.
BlobRecurse ==
    /\ InBlob /\ call[1].stack /= <<>>
    /\ LET c == call[1]
           top == c.stack[Len(c.stack)]
       IN  /\ top.stage \in 1..4
           /\ call' = <<[c EXCEPT !.stack = Append(@, Frame(NeighbourOf(top.pos, top.stage)))]>>
    /\ ev' = <<[op |-> "call"]>>
    /\ UNCHANGED <<board, goalVars, gg, loc, player, ret, moves>>

\* return count + 1
BlobFinish ==
    /\ InBlob /\ call[1].stack /= <<>>
    /\ LET c == call[1]
           top == c.stack[Len(c.stack)]
       IN  /\ top.stage = 5
           /\ call' = <<BlobPop(c, top.count + 1)>>
           /\ ev' = <<[op |-> "return", pos |-> top.pos, value |-> top.count + 1, was |-> -1]>>
    /\ UNCHANGED <<board, goalVars, gg, loc, player, ret, moves>>

\* return max(final)
BlobReturn ==
    /\ InBlob /\ call[1].stack = <<>>
    /\ call[1].k > Len(LoopPairs(Cardinality(DOMAIN call[1].grid)))
    /\ sc' = <<[kind |-> "blob", colour |-> call[1].colour, grid |-> call[1].grid,
              order |-> LoopPairs(Cardinality(DOMAIN call[1].grid)),
              value |-> BlobResult(call[1].final)]>>
    /\ ev' = <<[op |-> "score_returned", visited |-> call[1].visited]>>
    /\ call' = <<>>
    /\ UNCHANGED <<board, fl, gg, loc, player, ret, moves>>

NextBlob ==
    \/ \E colour \in BlobColours : BlobEnter(colour)
    \/ BlobScanNext
    \/ BlobInvoke
    \/ BlobRecurse
    \/ BlobFinish
    \/ BlobReturn

SpecBlob == Init /\ [][NextBlob]_vars

(***************************************************************************)
(* Properties of the visitation map.                                       *)
(***************************************************************************)
\* C13: during one BlobGoal.score call a cell's mark is -1 until the cell is
\* visited, then 1 when the cell is of the target colour and 0 when it is
\* not, and never changes again; a call of _undiscovered_blob_size on a cell
\* already visited returns 0 and changes nothing; when score returns every
\* cell is marked 0 or 1 (and the value is that of BlobGoal.score).
C13_VisitedMonotone ==
    /\ [](InBlob =>
            \A p \in Cells(GridSide(call[1].grid)) :
               LET mark == call[1].visited[p[1]][p[2]]
               IN  /\ mark \in {-1, 0, 1}
                   /\ mark = 1 => call[1].grid[p[1]][p[2]] = call[1].colour
                   /\ mark = 0 => call[1].grid[p[1]][p[2]] /= call[1].colour)
    /\ [][(InBlob /\ call' /= <<>>) =>
             \A p \in Cells(GridSide(call[1].grid)) :
                call[1].visited[p[1]][p[2]] /= -1 =>
                   call'[1].visited[p[1]][p[2]] = call[1].visited[p[1]][p[2]]]_vars
    /\ [][(InBlob /\ ev'[1].op = "return" /\ ev'[1].was \in {0, 1}) =>
             (ev'[1].value = 0 /\ call'[1].visited = call[1].visited)]_vars
    /\ [](ev /= <<>> /\ ev[1].op = "score_returned" =>
             /\ \A p \in Cells(GridSide(sc[1].grid)) : ev[1].visited[p[1]][p[2]] \in {0, 1}
             /\ sc[1].value = BlobGoal_score(sc[1].colour, board))

\* A recursive call of _undiscovered_blob_size, three calls deep, was made
\* on a cell already marked as of the target colour and returned 0.
C13_Witness ==
    /\ InBlob
    /\ ev /= <<>> /\ ev[1].op = "return" /\ ev[1].was = 1 /\ ev[1].value = 0
    /\ Len(call[1].stack) >= 3

(***************************************************************************)
(* Properties of the values the computer players sample.                   *)
(***************************************************************************)
SameGeometry(a, b) ==
    a.level = b.level /\ a.position = b.position /\ a.size = b.size

\* C14: in every draw of RandomPlayer and of SmartPlayer the coordinate that
\* can be sampled is inside the board's extent and the level is within
\* board.level..board.max_depth; the lookup finds a block in the real board
\* and in the copy, so apply is never given None; and the two blocks found
\* have the same level, position and size.
C14_SamplesInExtent ==
    /\ call /= <<>> => call[1].pc /= "raised"
    /\ (InRandomLoop \/ InSmartLoop) =>
          LET new_board == DrawCopy(board, call[1])
          IN  \A x \in XCoordinates(new_board, board), y \in YCoordinates(new_board, board),
                 level \in Levels(new_board) :
                 LET actual_move == get_block(board, <<x, y>>, level)
                     copy_move == get_block(new_board, <<x, y>>, level)
                 IN  /\ WellFormed(board)
                     /\ InExtent(board, <<x, y>>)
                     /\ board.level <= level /\ level <= board.max_depth
                     /\ actual_move /= <<>> /\ copy_move /= <<>>
                     /\ SameGeometry(NodeAt(board, actual_move[1]),
                                     NodeAt(new_board, copy_move[1]))
    /\ (DrawMade /\ ev[1].ok) =>
          /\ ev[1].actual_move.path /= <<>> /\ ev[1].copy_move.path /= <<>>
          /\ SameGeometry(NodeAt(board, ev[1].actual_move.path[1]),
                          NodeAt(ev[1].copy, ev[1].copy_move.path[1]))

\* A SmartPlayer on a board of four blocks, whose last draw smashed nothing
\* but succeeded on a block of level 1, is about to draw again.
C14_Witness ==
    /\ InSmartLoop /\ call[1].k < player.num_test
    /\ DrawMade /\ ev[1].ok
    /\ board.children /= <<>>
    /\ Len(ev[1].actual_move.path[1]) = 1
    /\ ev[1].level = 1

====
